---- MODULE Spec2Model ----
(***************************************************************************)
(* Model of line_follow.py: the interactive loop cozmo_program, the        *)
(* step_forward cycle (snapshot, 10 mm drive, snapshot, correction), the   *)
(* banded decision of correct_position and the lateral moves move_left /   *)
(* move_right.  Every robot action is issued and then awaited with         *)
(* wait_for_completed(); the robot completes an action either successfully *)
(* or with a failure, and the program never inspects that result.          *)
(***************************************************************************)
EXTENDS Integers, Sequences, FiniteSets, TLC

\* ---- module-level constants of line_follow.py ----
btm_zn_x == 30
btm_zn_y == 180
btm_zn_w == 260
btm_zn_h == 20
gap_s == 3
gap_m == 6
gap_l == 12
turn_s == 10
turn_m == 20
turn_l == 30
move_s == 5
move_m == 10
move_l == 15
cam_center == 160
\* cozmo.robot.MIN_HEAD_ANGLE, in degrees
MIN_HEAD_ANGLE == -25

\* ---- bounds of the model ----
\* the left edge of a detected contour lies within MaxOffset pixels of the
\* position that centres a MinWidth wide path under the camera
MaxOffset == 16
\* widths of the detected contour, in pixels
MinWidth == 8
MaxWidth == 9

\* pc          where cozmo_program stands: "input" at input('C>'), "exec"
\*             running the statements of a command, "wait" blocked in
\*             wait_for_completed(), "exit" after the break
\* cmd         the line read by input('C>') ("init" before the first prompt)
\* todo        the statements of the current command still to run
\* inflight    the robot actions sent and not yet reported completed
\* log         the actions issued, their completions and the snapshots of the
\*             current pass of the loop, in order
\* rect        the rectangles returned by get_path_rect in this pass: prv_*,
\*             cur_* of step_forward and x, y, w, h of capture
\* prevLost    history: the previous pass was a step_forward whose two
\*             snapshots both found no contour
\* prevMotions history: the motion actions issued in that previous pass
VARIABLES pc, cmd, todo, inflight, log, rect, prevLost, prevMotions

vars == <<pc, cmd, todo, inflight, log, rect, prevLost, prevMotions>>

Abs(n) == IF n < 0 THEN -n ELSE n

\* ---- robot actions and the other steps of the program ----
Op(name, arg, speed, dst) ==
    [op |-> name, arg |-> arg, speed |-> speed, dst |-> dst, wait |-> FALSE]

turn_in_place(deg) == Op("turn_in_place", deg, 0, "")
drive_straight(dist, speed) == Op("drive_straight", dist, speed, "")
set_head_angle(angle) == Op("set_head_angle", angle, 0, "")
set_lift_height(height) == Op("set_lift_height", height, 0, "")

\* mutant: the action is sent and the call returns without waiting for it
wait_for_completed_skipped(action) == action

\* action.wait_for_completed(): the caller blocks until the robot reports
\* the action completed (successfully or not)
wait_for_completed(action) == [action EXCEPT !.wait = TRUE]

\* a snapshot from robot.world.latest_image handed to get_path_rect, the
\* rectangle being stored in the local variables named by dst
snapshot(dst) == Op("get_path_rect", 0, 0, dst)

RobotOps == {"turn_in_place", "drive_straight", "set_head_angle", "set_lift_height"}
MotionOps == {"turn_in_place", "drive_straight"}

\* ---- get_path_rect ----
NoContour == <<0, 0, 0, 0>>
Unset == <<-1, -1, -1, -1>>

\* zone-local left edges of the bounding rectangle
LocalXs ==
    {x \in 0..btm_zn_w :
        /\ x + btm_zn_x >= cam_center - (MinWidth \div 2) - MaxOffset
        /\ x + btm_zn_x <= cam_center - (MinWidth \div 2) + MaxOffset}

\* the results get_path_rect can return: no contour, or the bounding
\* rectangle of the first contour translated to frame coordinates
get_path_rect ==
    {NoContour} \cup
    {<<x + btm_zn_x, 0 + btm_zn_y, w, btm_zn_h>> :
        x \in LocalXs, w \in MinWidth..MaxWidth}

\* int(round(x + w/2)); Python 3 rounds halves to the even neighbour
get_path_center(x, w) ==
    LET twice == 2 * x + w
        low == (twice - 1) \div 2
    IN  IF twice % 2 = 0 THEN twice \div 2
        ELSE IF low % 2 = 0 THEN low ELSE low + 1

\* ---- moves ----
move_right(move) ==
    << wait_for_completed(turn_in_place(-45)),
       wait_for_completed(drive_straight(move, 5)),
       wait_for_completed(turn_in_place(45)) >>

\* mutant: move_left written as a copy of move_right, the angles not negated
move_left_as_right(move) ==
    << wait_for_completed(turn_in_place(-45)),
       wait_for_completed(drive_straight(move, 5)),
       wait_for_completed(turn_in_place(45)) >>

move_left(move) ==
    << wait_for_completed(turn_in_place(45)),
       wait_for_completed(drive_straight(move, 5)),
       wait_for_completed(turn_in_place(-45)) >>

\* mutant: the absolute gap is examined before the relative gap
correct_position_abs_first(prv_center, cur_center) ==
    LET gap_rel == prv_center - cur_center
        gap_abs == cam_center - cur_center
    IN  IF gap_abs < -gap_l THEN move_left(move_l)
        ELSE IF gap_abs < -gap_m THEN move_left(move_m)
        ELSE IF gap_abs < -gap_s THEN move_left(move_s)
        ELSE IF gap_abs > gap_l THEN move_right(move_l)
        ELSE IF gap_abs > gap_m THEN move_right(move_m)
        ELSE IF gap_abs > gap_s THEN move_right(move_s)
        ELSE IF gap_rel < -gap_l THEN <<wait_for_completed(turn_in_place(turn_l))>>
        ELSE IF gap_rel < -gap_m THEN <<wait_for_completed(turn_in_place(turn_m))>>
        ELSE IF gap_rel < -gap_s THEN <<wait_for_completed(turn_in_place(turn_s))>>
        ELSE IF gap_rel > gap_l THEN <<wait_for_completed(turn_in_place(-turn_l))>>
        ELSE IF gap_rel > gap_m THEN <<wait_for_completed(turn_in_place(-turn_m))>>
        ELSE IF gap_rel > gap_s THEN <<wait_for_completed(turn_in_place(-turn_s))>>
        ELSE <<>>

\* mutant: the bands are scanned in ascending order, smallest threshold first
correct_position_ascending(prv_center, cur_center) ==
    LET gap_rel == prv_center - cur_center
        gap_abs == cam_center - cur_center
    IN  IF gap_rel < -gap_s THEN <<wait_for_completed(turn_in_place(turn_s))>>
        ELSE IF gap_rel < -gap_m THEN <<wait_for_completed(turn_in_place(turn_m))>>
        ELSE IF gap_rel < -gap_l THEN <<wait_for_completed(turn_in_place(turn_l))>>
        ELSE IF gap_rel > gap_s THEN <<wait_for_completed(turn_in_place(-turn_s))>>
        ELSE IF gap_rel > gap_m THEN <<wait_for_completed(turn_in_place(-turn_m))>>
        ELSE IF gap_rel > gap_l THEN <<wait_for_completed(turn_in_place(-turn_l))>>
        ELSE IF gap_abs < -gap_s THEN move_left(move_s)
        ELSE IF gap_abs < -gap_m THEN move_left(move_m)
        ELSE IF gap_abs < -gap_l THEN move_left(move_l)
        ELSE IF gap_abs > gap_s THEN move_right(move_s)
        ELSE IF gap_abs > gap_m THEN move_right(move_m)
        ELSE IF gap_abs > gap_l THEN move_right(move_l)
        ELSE <<>>

\* mutant: the comparisons include the threshold itself
correct_position_inclusive(prv_center, cur_center) ==
    LET gap_rel == prv_center - cur_center
        gap_abs == cam_center - cur_center
    IN  IF gap_rel <= -gap_l THEN <<wait_for_completed(turn_in_place(turn_l))>>
        ELSE IF gap_rel <= -gap_m THEN <<wait_for_completed(turn_in_place(turn_m))>>
        ELSE IF gap_rel <= -gap_s THEN <<wait_for_completed(turn_in_place(turn_s))>>
        ELSE IF gap_rel >= gap_l THEN <<wait_for_completed(turn_in_place(-turn_l))>>
        ELSE IF gap_rel >= gap_m THEN <<wait_for_completed(turn_in_place(-turn_m))>>
        ELSE IF gap_rel >= gap_s THEN <<wait_for_completed(turn_in_place(-turn_s))>>
        ELSE IF gap_abs <= -gap_l THEN move_left(move_l)
        ELSE IF gap_abs <= -gap_m THEN move_left(move_m)
        ELSE IF gap_abs <= -gap_s THEN move_left(move_s)
        ELSE IF gap_abs >= gap_l THEN move_right(move_l)
        ELSE IF gap_abs >= gap_m THEN move_right(move_m)
        ELSE IF gap_abs >= gap_s THEN move_right(move_s)
        ELSE <<>>

\* mutant: the turn follows the sign of the relative gap
correct_position_same_sign(prv_center, cur_center) ==
    LET gap_rel == prv_center - cur_center
        gap_abs == cam_center - cur_center
    IN  IF gap_rel < -gap_l THEN <<wait_for_completed(turn_in_place(-turn_l))>>
        ELSE IF gap_rel < -gap_m THEN <<wait_for_completed(turn_in_place(-turn_m))>>
        ELSE IF gap_rel < -gap_s THEN <<wait_for_completed(turn_in_place(-turn_s))>>
        ELSE IF gap_rel > gap_l THEN <<wait_for_completed(turn_in_place(turn_l))>>
        ELSE IF gap_rel > gap_m THEN <<wait_for_completed(turn_in_place(turn_m))>>
        ELSE IF gap_rel > gap_s THEN <<wait_for_completed(turn_in_place(turn_s))>>
        ELSE IF gap_abs < -gap_l THEN move_left(move_l)
        ELSE IF gap_abs < -gap_m THEN move_left(move_m)
        ELSE IF gap_abs < -gap_s THEN move_left(move_s)
        ELSE IF gap_abs > gap_l THEN move_right(move_l)
        ELSE IF gap_abs > gap_m THEN move_right(move_m)
        ELSE IF gap_abs > gap_s THEN move_right(move_s)
        ELSE <<>>

\* ---- correct_position ----
correct_position(prv_center, cur_center) ==
    LET gap_rel == prv_center - cur_center
        gap_abs == cam_center - cur_center
    IN  IF gap_rel < -gap_l THEN <<wait_for_completed(turn_in_place(turn_l))>>
        ELSE IF gap_rel < -gap_m THEN <<wait_for_completed(turn_in_place(turn_m))>>
        ELSE IF gap_rel < -gap_s THEN <<wait_for_completed(turn_in_place(turn_s))>>
        ELSE IF gap_rel > gap_l THEN <<wait_for_completed(turn_in_place(-turn_l))>>
        ELSE IF gap_rel > gap_m THEN <<wait_for_completed(turn_in_place(-turn_m))>>
        ELSE IF gap_rel > gap_s THEN <<wait_for_completed(turn_in_place(-turn_s))>>
        ELSE IF gap_abs < -gap_l THEN move_left(move_l)
        ELSE IF gap_abs < -gap_m THEN move_left(move_m)
        ELSE IF gap_abs < -gap_s THEN move_left(move_s)
        ELSE IF gap_abs > gap_l THEN move_right(move_l)
        ELSE IF gap_abs > gap_m THEN move_right(move_m)
        ELSE IF gap_abs > gap_s THEN move_right(move_s)
        ELSE <<>>

\* ---- step_forward, capture, battery_level ----
\* mutant: the forward drive is not awaited before the second snapshot
step_forward_drive_not_awaited ==
    << wait_for_completed(set_head_angle(MIN_HEAD_ANGLE)),
       snapshot("prv"),
       drive_straight(10, 5),
       wait_for_completed(set_head_angle(MIN_HEAD_ANGLE)),
       snapshot("cur"),
       Op("correct_position", 0, 0, "") >>

step_forward ==
    << wait_for_completed(set_head_angle(MIN_HEAD_ANGLE)),
       snapshot("prv"),
       wait_for_completed(drive_straight(10, 5)),
       wait_for_completed(set_head_angle(MIN_HEAD_ANGLE)),
       snapshot("cur"),
       Op("correct_position", 0, 0, "") >>

capture ==
    << wait_for_completed(set_head_angle(MIN_HEAD_ANGLE)),
       snapshot("cap") >>

battery_level == << Op("battery_voltage", 0, 0, "") >>

\* ---- cozmo_program ----
Commands == {"s", "r", "l", "c", "b", "e", "x"}

\* the body of the while loop for one line of input
dispatch(c) ==
    IF c = "s" THEN step_forward
    ELSE IF c = "r" THEN move_right(move_l)
    ELSE IF c = "l" THEN move_left(move_l)
    ELSE IF c = "c" THEN capture
    ELSE IF c = "b" THEN battery_level
    ELSE <<>>

\* the statements before the while loop
startup == << wait_for_completed(set_lift_height(1)) >>

\* ---- the log of one pass of the loop ----
Event(ev, c, res) == [ev |-> ev, cmd |-> c, res |-> res]

Issued(l) == SelectSeq(l, LAMBDA e : e.ev = "issue")
Motions(l) == SelectSeq(l, LAMBDA e : e.ev = "issue" /\ e.cmd.op \in MotionOps)

NoRects == [n \in {"prv", "cur", "cap"} |-> Unset]

\* both snapshots of a step_forward pass found no contour
Lost == cmd = "s" /\ rect["prv"] = NoContour /\ rect["cur"] = NoContour

Init ==
    /\ pc = "exec"
    /\ cmd = "init"
    /\ todo = startup
    /\ inflight = <<>>
    /\ log = <<>>
    /\ rect = NoRects
    /\ prevLost = FALSE
    /\ prevMotions = 0

\* cmd = input('C>') and the dispatch of the command
Input(c) ==
    /\ pc = "input"
    /\ pc' = IF c = "e" THEN "exit" ELSE "exec"
    /\ cmd' = c
    /\ todo' = dispatch(c)
    /\ log' = <<>>
    /\ rect' = NoRects
    /\ prevLost' = Lost
    /\ prevMotions' = IF Lost THEN Len(Motions(log)) ELSE 0
    /\ UNCHANGED inflight

\* the program sends the next robot action and, when the call is followed
\* by wait_for_completed(), blocks on it
Issue ==
    /\ pc = "exec"
    /\ todo # <<>>
    /\ Head(todo).op \in RobotOps
    /\ inflight' = Append(inflight, Head(todo))
    /\ log' = Append(log, Event("issue", Head(todo), ""))
    /\ pc' = IF Head(todo).wait THEN "wait" ELSE "exec"
    /\ todo' = Tail(todo)
    /\ UNCHANGED <<cmd, rect, prevLost, prevMotions>>

\* the robot reports an action in flight as completed, successfully or
\* failed; wait_for_completed() returns and its result is discarded
Complete(i, res) ==
    /\ i \in 1..Len(inflight)
    /\ inflight' = [j \in 1..(Len(inflight) - 1) |->
                        IF j < i THEN inflight[j] ELSE inflight[j + 1]]
    /\ log' = Append(log, Event("done", inflight[i], res))
    /\ pc' = IF pc = "wait" /\ i = Len(inflight) THEN "exec" ELSE pc
    /\ UNCHANGED <<cmd, todo, rect, prevLost, prevMotions>>

\* raw_img = latest_image; x, y, w, h = get_path_rect(raw_img)
Snapshot(r) ==
    /\ pc = "exec"
    /\ todo # <<>>
    /\ Head(todo).op = "get_path_rect"
    /\ rect' = [rect EXCEPT ![Head(todo).dst] = r]
    /\ log' = Append(log, Event("snap", Head(todo), ""))
    /\ todo' = Tail(todo)
    /\ UNCHANGED <<pc, cmd, inflight, prevLost, prevMotions>>

\* correct_position(robot, get_path_center(prv_x, prv_w),
\*                         get_path_center(cur_x, cur_w))
CorrectPosition ==
    /\ pc = "exec"
    /\ todo # <<>>
    /\ Head(todo).op = "correct_position"
    /\ todo' = correct_position(get_path_center(rect["prv"][1], rect["prv"][3]),
                                get_path_center(rect["cur"][1], rect["cur"][3]))
               \o Tail(todo)
    /\ UNCHANGED <<pc, cmd, inflight, log, rect, prevLost, prevMotions>>

\* level = robot.battery_voltage, with a warning when level <= 3.5
BatteryLevel(low) ==
    /\ pc = "exec"
    /\ todo # <<>>
    /\ Head(todo).op = "battery_voltage"
    /\ log' = Append(log, Event("battery", Head(todo), IF low THEN "low" ELSE "ok"))
    /\ todo' = Tail(todo)
    /\ UNCHANGED <<pc, cmd, inflight, rect, prevLost, prevMotions>>

\* the command's function returns and the loop prompts again
Return ==
    /\ pc = "exec"
    /\ todo = <<>>
    /\ pc' = "input"
    /\ UNCHANGED <<cmd, todo, inflight, log, rect, prevLost, prevMotions>>

Next ==
    \/ \E c \in Commands : Input(c)
    \/ Issue
    \/ \E i \in 1..Len(inflight), res \in {"ok", "failed"} : Complete(i, res)
    \/ \E r \in get_path_rect : Snapshot(r)
    \/ CorrectPosition
    \/ \E low \in BOOLEAN : BatteryLevel(low)
    \/ Return

Spec == Init /\ [][Next]_vars

\* ---- what a finished step_forward pass did ----
prv_center == get_path_center(rect["prv"][1], rect["prv"][3])
cur_center == get_path_center(rect["cur"][1], rect["cur"][3])
RelGap == prv_center - cur_center
AbsGap == cam_center - cur_center

StepDone == pc = "input" /\ cmd = "s"
Found(dst) == rect[dst] # Unset /\ rect[dst] # NoContour

SnapAt(dst) == {i \in 1..Len(log) : log[i].ev = "snap" /\ log[i].cmd.dst = dst}

\* the robot actions issued after the second snapshot, in order
Corrective ==
    IF SnapAt("cur") = {} THEN <<>>
    ELSE LET i == CHOOSE k \in SnapAt("cur") : TRUE
             iss == Issued(SubSeq(log, i + 1, Len(log)))
         IN  [k \in 1..Len(iss) |-> iss[k].cmd]

IsTurn(c) == c.op = "turn_in_place"
IsDrive(c) == c.op = "drive_straight"

\* one standalone turn
OneTurn(seq) == Len(seq) = 1 /\ IsTurn(seq[1])

\* a lateral move: turn 45 degrees to one side, drive, turn back
LateralMove(seq) ==
    /\ Len(seq) = 3
    /\ IsTurn(seq[1]) /\ IsDrive(seq[2]) /\ IsTurn(seq[3])
    /\ seq[1].arg \in {45, -45}
    /\ seq[3].arg = -seq[1].arg

TurnOf(seq, deg) == OneTurn(seq) /\ Abs(seq[1].arg) = deg
MoveOf(seq, dist) == LateralMove(seq) /\ seq[2].arg = dist

\* the same actions with every turn angle negated
Mirror(seq) ==
    [k \in 1..Len(seq) |->
        IF IsTurn(seq[k]) THEN [seq[k] EXCEPT !.arg = -seq[k].arg] ELSE seq[k]]

\* C1: when both snapshots of two consecutive step_forward passes find no
\* contour, no turn_in_place and no drive_straight is issued in those passes.
C1_NoMotionWhenLost ==
    (pc = "input" /\ Lost /\ prevLost) =>
        prevMotions + Len(Motions(log)) = 0

\* C2: when the first snapshot of a step_forward pass finds no contour and
\* the second finds one, no corrective action is issued.
C2_NoCorrectionFromInvalidPrev ==
    (cmd = "s" /\ rect["prv"] = NoContour /\ Found("cur")) =>
        Corrective = <<>>

\* C3: at most one robot action is in flight at any time.
C3_OneCommandInFlight == Len(inflight) <= 1

C3_Witness ==
    /\ cmd = "s"
    /\ Len(inflight) = 1
    /\ Len(Issued(log)) = 4

\* C4: after a motion action has failed, no further motion action is issued
\* in the same pass of the loop.
C4_FaultTerminal ==
    \A i \in 1..Len(log) : \A j \in 1..Len(log) :
        ~ /\ i < j
          /\ log[i].ev = "done" /\ log[i].res = "failed"
          /\ log[i].cmd.op \in MotionOps
          /\ log[j].ev = "issue" /\ log[j].cmd.op \in MotionOps

\* C5: first match wins: a relative gap beyond gap_s gives exactly one turn
\* and no lateral move; otherwise an absolute gap beyond gap_s gives exactly
\* one lateral move and no standalone turn; otherwise nothing is issued.
C5_PriorityOrder ==
    StepDone =>
        LET corr == Corrective
            rel == RelGap
            abs == AbsGap
        IN
        IF Abs(rel) > gap_s THEN OneTurn(corr)
        ELSE IF Abs(abs) > gap_s THEN LateralMove(corr)
        ELSE corr = <<>>

C5_Witness ==
    /\ StepDone /\ Found("prv") /\ Found("cur")
    /\ Abs(RelGap) <= gap_s /\ Abs(AbsGap) > gap_s
    /\ LateralMove(Corrective)

\* C6: band monotonicity: a gap beyond gap_l gives the large magnitude, one
\* in (gap_m, gap_l] the medium and one in (gap_s, gap_m] the small one, for
\* turns by the relative gap and for moves by the absolute gap.
C6_BandMonotonicity ==
    StepDone =>
        LET corr == Corrective
            rel == RelGap
            abs == AbsGap
        IN
        /\ Abs(rel) > gap_l => TurnOf(corr, turn_l)
        /\ (Abs(rel) > gap_m /\ Abs(rel) <= gap_l) => TurnOf(corr, turn_m)
        /\ (Abs(rel) > gap_s /\ Abs(rel) <= gap_m) => TurnOf(corr, turn_s)
        /\ Abs(rel) <= gap_s =>
            /\ Abs(abs) > gap_l => MoveOf(corr, move_l)
            /\ (Abs(abs) > gap_m /\ Abs(abs) <= gap_l) => MoveOf(corr, move_m)
            /\ (Abs(abs) > gap_s /\ Abs(abs) <= gap_m) => MoveOf(corr, move_s)

C6_Witness ==
    /\ StepDone /\ Found("prv") /\ Found("cur")
    /\ Abs(RelGap) = gap_l + 1
    /\ TurnOf(Corrective, turn_l)

\* C7: comparisons are strict: a gap of exactly gap_l gives the medium
\* magnitude, one of exactly gap_m the small one, and a relative gap of
\* exactly gap_s gives no turn but falls through to the absolute gap.
C7_StrictComparisons ==
    StepDone =>
        LET corr == Corrective
            rel == RelGap
            abs == AbsGap
        IN
        /\ Abs(rel) = gap_l => TurnOf(corr, turn_m)
        /\ Abs(rel) = gap_m => TurnOf(corr, turn_s)
        /\ Abs(rel) = gap_s =>
            /\ ~OneTurn(corr)
            /\ Abs(abs) = gap_l => MoveOf(corr, move_m)
            /\ Abs(abs) = gap_m => MoveOf(corr, move_s)
            /\ Abs(abs) > gap_s => LateralMove(corr)
            /\ Abs(abs) <= gap_s => corr = <<>>

C7_Witness ==
    /\ StepDone /\ Found("prv") /\ Found("cur")
    /\ RelGap = -gap_s /\ AbsGap = gap_l
    /\ MoveOf(Corrective, move_m) /\ Corrective[1].arg = -45

InFlightAfter(i) ==
    Len(SelectSeq(SubSeq(log, 1, i), LAMBDA e : e.ev = "issue"))
    - Len(SelectSeq(SubSeq(log, 1, i), LAMBDA e : e.ev = "done"))

\* C10: in a step_forward pass no snapshot is taken with an action in
\* flight, the only motion before the second snapshot is the 10 mm drive,
\* issued after the first snapshot and completed before the second, and
\* after the second snapshot comes at most one turn or one lateral move.
C10_StepOrder ==
    cmd = "s" =>
        LET prvAt == SnapAt("prv")
            curAt == SnapAt("cur")
            corr == Corrective
            drive == wait_for_completed(drive_straight(10, 5))
            MotionAt(i) == log[i].ev = "issue" /\ log[i].cmd.op \in MotionOps
        IN  /\ Cardinality(prvAt) <= 1 /\ Cardinality(curAt) <= 1
            /\ \A i \in prvAt \cup curAt : InFlightAfter(i) = 0
            /\ \A i \in 1..Len(log) :
                  (MotionAt(i) /\ \A j \in curAt : i < j) =>
                      /\ log[i].cmd = drive
                      /\ \E j \in prvAt : j < i
                      /\ \A k \in 1..(i - 1) : ~MotionAt(k)
            /\ \A j \in curAt :
                  /\ \E p \in prvAt : p < j
                  /\ \E i \in 1..(j - 1) :
                        log[i].ev = "done" /\ log[i].cmd = drive
            /\ Len(corr) <= 3
            /\ StepDone =>
                  /\ curAt # {}
                  /\ \/ corr = <<>>
                     \/ OneTurn(corr)
                     \/ LateralMove(corr)

C10_Witness ==
    /\ StepDone /\ Found("prv") /\ Found("cur")
    /\ LateralMove(Corrective)
    /\ Len(Issued(log)) = 6
====
